---- MODULE Spec2Model ----
(***************************************************************************)
(* Model of dags/raw_from_api_to_s3.py: the Airflow DAG raw_from_api_to_s3 *)
(* and its single task get_and_transfer_api_data_to_s3, which reads a CSV  *)
(* from the USGS API through DuckDB and copies it to MinIO (S3) as one     *)
(* parquet object per data interval.                                       *)
(*                                                                         *)
(* Time is counted in hours of UTC since 2025-05-01 00:00 UTC; a calendar  *)
(* date (the string YYYY-MM-DD) is the number of whole days since          *)
(* 2025-05-01, so date 0 is "2025-05-01" and date 1 is "2025-05-02".       *)
(***************************************************************************)
EXTENDS Integers, Sequences, FiniteSets, TLC

VARIABLES
    nextRun,      \* scheduler: number of DAG runs created so far (catch-up cursor)
    run,          \* scheduler: state of the DAG run of each interval
    try_number,   \* scheduler: attempts started for the task of the active run (0: no run)
    reruns,       \* scheduler: how many finished runs were cleared for re-execution
    cur,          \* interval whose task attempt holds the single task slot (0: none)
    pc,           \* position of the executing attempt inside the task function
    start_date,   \* local of get_and_transfer_api_data_to_s3
    end_date,     \* local of get_and_transfer_api_data_to_s3
    con,          \* local of get_and_transfer_api_data_to_s3: the DuckDB connection
    sessions,     \* DuckDB connections that are open
    fetched,      \* rows bound by read_csv_auto in the running statement
    upload,       \* the pending upload of the COPY statement, <<>> when none
    objects,      \* the bucket: object key -> object
    failure,      \* the exception the attempt raised, "none" when none
    log,          \* log lines of the executing attempt
    installed,    \* whether the worker's DuckDB has the httpfs extension installed
    extLoads,     \* extension downloads issued by the executing attempt
    netReads,     \* reads of the USGS endpoint issued by the executing attempt
    s3Writes,     \* S3 writes issued by the executing attempt
    before,       \* the bucket as it was when the executing attempt started
    written       \* intervals for which a COPY has completed

vars == <<nextRun, run, try_number, reruns, cur, pc, start_date, end_date, con,
          sessions, fetched, upload, objects, failure, log, installed, extLoads,
          netReads, s3Writes, before, written>>

schedVars == <<nextRun, run, try_number, reruns>>
taskLocals == <<start_date, end_date, con>>

----------------------------------------------------------------------------
\* Bounds of the model.
MaxDays == 2        \* number of daily intervals the scheduler goes through
MaxReruns == 1      \* number of times a finished run is cleared and re-executed
MaxVer == 1         \* distinct bodies the remote endpoint may answer with
MaxOpen == 2        \* connections left open that may pile up before one is reclaimed

\* Program constants.
LAYER == "raw"
SOURCE == "earthquake"
Retries == 3
MaxActiveRuns_two == 1 + 1
MaxActiveRuns == 1
MaxActiveTasks == 1
HoursPerDay == 24
CronHour == 5
MoscowOffset == 3

Days == 1..MaxDays
NoDate == -1
NoCon == 0

----------------------------------------------------------------------------
\* The scheduler's context of the run of interval d (d = 1 is the first
\* interval after args["start_date"], 2025-05-01 00:00 Europe/Moscow): the cron
\* "0 5 * * *" ticks at 05:00 Moscow time, which is 02:00 UTC.
data_interval_start(d) == (CronHour - MoscowOffset) + (d - 1) * HoursPerDay
data_interval_end(d) == (CronHour - MoscowOffset) + d * HoursPerDay

\* Mutant: the format keeps the month only ("YYYY-MM").
FormatDate_monthOnly(ts) == ts \div (HoursPerDay * 31)

\* pendulum's format("YYYY-MM-DD") of a timestamp: its calendar date.
FormatDate(ts) == ts \div HoursPerDay

\* get_dates(**context): (start_date, end_date)
get_dates(d) == <<FormatDate(data_interval_start(d)), FormatDate(data_interval_end(d))>>

\* The URL read_csv_auto reads: determined by both dates.
ApiUrl(sd, ed) == <<"query", sd, ed>>

\* Mutant: the key is stamped with the execution (here: how often runs were
\* cleared) instead of the fixed 00-00-00.
S3Path_stamped(sd) == <<"prod", LAYER, SOURCE, sd, sd, reruns>>

\* The key of the COPY target:
\* s3://prod/{LAYER}/{SOURCE}/{start_date}/{start_date}_00-00-00.gz.parquet
S3Path(sd) == <<"prod", LAYER, SOURCE, sd, sd, "00-00-00.gz.parquet">>

Init ==
    /\ nextRun = 0
    /\ run = [d \in Days |-> "none"]
    /\ try_number = 0
    /\ reruns = 0
    /\ cur = 0
    /\ pc = "idle"
    /\ start_date = NoDate
    /\ end_date = NoDate
    /\ con = NoCon
    /\ sessions = {}
    /\ fetched = <<>>
    /\ upload = <<>>
    /\ objects = <<>>
    /\ failure = "none"
    /\ log = <<>>
    /\ installed = FALSE
    /\ extLoads = 0
    /\ netReads = 0
    /\ s3Writes = 0
    /\ before = <<>>
    /\ written = {}

----------------------------------------------------------------------------
\* The scheduler, as the DAG's arguments configure it.

Queued == {d \in Days : run[d] = "queued"}
Running == {d \in Days : run[d] = "running"}
Executing == IF cur = 0 THEN {} ELSE {cur}

\* catchup: one DAG run per daily interval since args["start_date"], created in
\* chronological order, the next one once the previous one has left the queue.
CreateRun ==
    /\ nextRun < MaxDays
    /\ Queued = {}
    /\ nextRun' = nextRun + 1
    /\ run' = [run EXCEPT ![nextRun + 1] = "queued"]
    /\ UNCHANGED <<try_number, reruns, cur, pc, start_date, end_date, con,
                   sessions, fetched, upload, objects, failure, log, netReads,
                   s3Writes, before, written, installed, extLoads>>

\* max_active_runs: the earliest queued run becomes running when fewer than
\* max_active_runs runs are running.
StartRun ==
    /\ Queued # {}
    /\ Cardinality(Running) < MaxActiveRuns
    /\ LET d == CHOOSE x \in Queued : \A y \in Queued : x <= y
       IN /\ run' = [run EXCEPT ![d] = "running"]
          /\ try_number' = 0
    /\ UNCHANGED <<nextRun, reruns, cur, pc, start_date, end_date, con,
                   sessions, fetched, upload, objects, failure, log, netReads,
                   s3Writes, before, written, installed, extLoads>>

\* The attempt is over: the callable's frame (its locals, the statement's
\* buffers) is gone, and so are the attempt's log and counters. A connection
\* that was not closed stays in sessions.
ReleaseFrame ==
    /\ start_date' = NoDate
    /\ end_date' = NoDate
    /\ con' = NoCon
    /\ fetched' = <<>>
    /\ upload' = <<>>
    /\ failure' = "none"
    /\ log' = <<>>
    /\ extLoads' = 0
    /\ netReads' = 0
    /\ s3Writes' = 0
    /\ before' = <<>>

\* concurrency / max_active_tasks: the task of a running run is handed to the
\* PythonOperator when the task slot is free.
LaunchAttempt(d) ==
    /\ run[d] = "running"
    /\ Cardinality(Executing) < MaxActiveTasks
    /\ pc = "idle"
    /\ Cardinality(sessions) < MaxOpen
    /\ cur' = d
    /\ try_number' = try_number + 1
    /\ pc' = "get_dates"
    /\ before' = objects
    /\ UNCHANGED <<nextRun, run, reruns, start_date, end_date, con, sessions,
                   fetched, upload, objects, failure, log, netReads, s3Writes, written, installed, extLoads>>

\* Mutant: one retry too many.
TaskFailed_offByOne ==
    /\ pc = "raised"
    /\ IF try_number <= Retries + 1
       THEN UNCHANGED <<run, try_number>>
       ELSE /\ run' = [run EXCEPT ![cur] = "failed"]
            /\ try_number' = 0
    /\ cur' = 0
    /\ pc' = "idle"
    /\ ReleaseFrame
    /\ UNCHANGED <<nextRun, reruns, sessions, objects, written,
                   installed>>

\* retries: an attempt that raised is retried while try_number <= retries,
\* otherwise the task, and with it the run, is failed.
TaskFailed ==
    /\ pc = "raised"
    /\ IF try_number <= Retries
       THEN UNCHANGED <<run, try_number>>
       ELSE /\ run' = [run EXCEPT ![cur] = "failed"]
            /\ try_number' = 0
    /\ cur' = 0
    /\ pc' = "idle"
    /\ ReleaseFrame
    /\ UNCHANGED <<nextRun, reruns, sessions, objects, written,
                   installed>>

\* The callable returned: the task, then "end", then the run succeed.
TaskSucceeded ==
    /\ pc = "done"
    /\ run' = [run EXCEPT ![cur] = "success"]
    /\ try_number' = 0
    /\ cur' = 0
    /\ pc' = "idle"
    /\ ReleaseFrame
    /\ UNCHANGED <<nextRun, reruns, sessions, objects, written, installed>>

\* A finished run is cleared: the same run, with the same data interval, is
\* queued again.
Rerun(d) ==
    /\ run[d] \in {"success", "failed"}
    /\ reruns < MaxReruns
    /\ reruns' = reruns + 1
    /\ run' = [run EXCEPT ![d] = "queued"]
    /\ UNCHANGED <<nextRun, try_number, cur, pc, start_date, end_date, con,
                   sessions, fetched, upload, objects, failure, log, netReads,
                   s3Writes, before, written, installed, extLoads>>

----------------------------------------------------------------------------
\* The task function get_and_transfer_api_data_to_s3, statement by statement.

StartLine(sd, ed) == [kind |-> "start", start_date |-> sd, end_date |-> ed]
SuccessLine(sd) == [kind |-> "success", start_date |-> sd, end_date |-> NoDate]

\* start_date, end_date = get_dates(**context); logging.info("Start load ...")
GetDatesAndLogStart ==
    /\ pc = "get_dates"
    /\ start_date' = get_dates(cur)[1]
    /\ end_date' = get_dates(cur)[2]
    /\ log' = Append(log, StartLine(get_dates(cur)[1], get_dates(cur)[2]))
    /\ pc' = "connect"
    /\ UNCHANGED <<schedVars, cur, con, sessions, fetched, upload, objects,
                   failure, netReads, s3Writes, before, written, installed,
                   extLoads>>

\* duckdb.connect(): a new in-memory database, named by the least handle that
\* no open connection has.
NewSession == CHOOSE s \in 1..(Cardinality(sessions) + 1) : s \notin sessions

\* con = duckdb.connect()
Connect ==
    /\ pc = "connect"
    /\ con' = NewSession
    /\ sessions' = sessions \cup {NewSession}
    /\ pc' = "install"
    /\ UNCHANGED <<schedVars, cur, start_date, end_date, fetched, upload,
                   objects, failure, log, netReads, s3Writes, before, written,
                   installed, extLoads>>

\* con.sql(...): INSTALL httpfs; LOAD httpfs; with the extension already in the
\* worker's extension directory nothing is fetched.
SqlInstallCached ==
    /\ pc = "install"
    /\ installed
    /\ pc' = "bind"
    /\ UNCHANGED <<schedVars, cur, taskLocals, sessions, fetched, upload,
                   objects, failure, log, netReads, s3Writes, before, written,
                   installed, extLoads>>

\* con.sql(...): INSTALL httpfs; without it the extension is downloaded from
\* the extension repository and kept in the worker's extension directory.
SqlInstallDownload ==
    /\ pc = "install"
    /\ ~installed
    /\ extLoads' = extLoads + 1
    /\ installed' = TRUE
    /\ pc' = "bind"
    /\ UNCHANGED <<schedVars, cur, taskLocals, sessions, fetched, upload,
                   objects, failure, log, netReads, s3Writes, before, written>>

\* con.sql(...): INSTALL httpfs; the download fails and con.sql raises.
SqlInstallFail ==
    /\ pc = "install"
    /\ ~installed
    /\ extLoads' = extLoads + 1
    /\ failure' = "install"
    /\ pc' = "raised"
    /\ UNCHANGED <<schedVars, cur, taskLocals, sessions, fetched, upload,
                   objects, log, netReads, s3Writes, before, written,
                   installed>>

\* con.sql(...): read_csv_auto(url) answers with a CSV body.
SqlFetchOk ==
    /\ pc = "bind"
    /\ netReads' = netReads + 1
    /\ \E v \in 1..MaxVer : fetched' = <<ApiUrl(start_date, end_date), v>>
    /\ pc' = "open"
    /\ UNCHANGED <<schedVars, cur, taskLocals, sessions, upload, objects,
                   failure, log, s3Writes, before, written, installed, extLoads>>

\* Mutant: the COPY creates its (empty) target before the read is bound.
SqlFetchFail_truncates ==
    /\ pc = "bind"
    /\ netReads' = netReads + 1
    /\ failure' = "http"
    /\ pc' = "raised"
    /\ objects' = (S3Path(start_date) :> [data |-> <<>>, sent |-> "all"]) @@ objects
    /\ UNCHANGED <<schedVars, cur, taskLocals, sessions, fetched, upload, log,
                   s3Writes, before, written, installed, extLoads>>

\* con.sql(...): read_csv_auto(url) gets a non-2xx answer; con.sql raises.
SqlFetchFail ==
    /\ pc = "bind"
    /\ netReads' = netReads + 1
    /\ failure' = "http"
    /\ pc' = "raised"
    /\ UNCHANGED <<schedVars, cur, taskLocals, sessions, fetched, upload,
                   objects, log, s3Writes, before, written, installed, extLoads>>

\* con.sql(...): COPY ... TO 's3://...' opens its target: an upload that is
\* not an object of the bucket until it is completed.
SqlOpenTarget ==
    /\ pc = "open"
    /\ s3Writes' = s3Writes + 1
    /\ upload' = <<[key |-> S3Path(start_date), data |-> fetched, sent |-> "none"]>>
    /\ pc' = "copy"
    /\ UNCHANGED <<schedVars, cur, taskLocals, sessions, fetched, objects,
                   failure, log, netReads, before, written, installed,
                   extLoads>>

\* con.sql(...): the endpoint or the credentials are refused; con.sql raises.
SqlOpenFail ==
    /\ pc = "open"
    /\ s3Writes' = s3Writes + 1
    /\ failure' = "s3"
    /\ pc' = "raised"
    /\ UNCHANGED <<schedVars, cur, taskLocals, sessions, fetched, upload,
                   objects, log, netReads, before, written, installed,
                   extLoads>>

\* con.sql(...): the COPY streams further rows of the (finite) CSV into the
\* upload; after it some more of the rows, or all of them, have been sent.
SqlCopyPart ==
    /\ pc = "copy"
    /\ upload[1].sent # "all"
    /\ \E p \in {"some", "all"} :
          /\ p # upload[1].sent
          /\ upload' = <<[upload[1] EXCEPT !.sent = p]>>
    /\ UNCHANGED <<schedVars, cur, pc, taskLocals, sessions, fetched, objects,
                   failure, log, netReads, s3Writes, before, written,
                   installed, extLoads>>

\* Mutant: the chunks sent so far are left at the key as an object.
SqlCopyFail_partial ==
    /\ pc = "copy"
    /\ \E k \in {"csv", "s3"} :
          /\ k = "csv" => upload[1].sent # "all"
          /\ failure' = k
    /\ pc' = "raised"
    /\ objects' = (upload[1].key :> [data |-> upload[1].data, sent |-> upload[1].sent])
                    @@ objects
    /\ UNCHANGED <<schedVars, cur, taskLocals, sessions, fetched, upload, log,
                   netReads, s3Writes, before, written, installed, extLoads>>

\* con.sql(...): the stream breaks, on a malformed CSV row ("csv", while rows
\* are still to be read) or on the storage side ("s3"); the upload is never
\* completed and con.sql raises.
SqlCopyFail ==
    /\ pc = "copy"
    /\ \E k \in {"csv", "s3"} :
          /\ k = "csv" => upload[1].sent # "all"
          /\ failure' = k
    /\ pc' = "raised"
    /\ UNCHANGED <<schedVars, cur, taskLocals, sessions, fetched, upload,
                   objects, log, netReads, s3Writes, before, written, installed,
                   extLoads>>

\* Mutant: the COPY replaces the bucket's content instead of one object.
SqlFinish_clobber ==
    /\ pc = "copy"
    /\ upload[1].sent = "all"
    /\ objects' = (upload[1].key :> [data |-> upload[1].data, sent |-> upload[1].sent])
    /\ written' = written \cup {cur}
    /\ upload' = <<>>
    /\ pc' = "close"
    /\ UNCHANGED <<schedVars, cur, taskLocals, sessions, fetched, failure, log,
                   netReads, s3Writes, before, installed, extLoads>>

\* con.sql(...): the COPY completes: the whole object replaces whatever the
\* key held.
SqlFinish ==
    /\ pc = "copy"
    /\ upload[1].sent = "all"
    /\ objects' = (upload[1].key :> [data |-> upload[1].data, sent |-> upload[1].sent])
                    @@ objects
    /\ written' = written \cup {cur}
    /\ upload' = <<>>
    /\ pc' = "close"
    /\ UNCHANGED <<schedVars, cur, taskLocals, sessions, fetched, failure,
                   log, netReads, s3Writes, before, installed, extLoads>>

\* con.close()
Close ==
    /\ pc = "close"
    /\ sessions' = sessions \ {con}
    /\ pc' = "log_success"
    /\ UNCHANGED <<schedVars, cur, taskLocals, fetched, upload, objects,
                   failure, log, netReads, s3Writes, before, written,
                   installed, extLoads>>

\* Mutant: the success line is logged in place of con.close().
LogSuccess_beforeClose ==
    /\ pc = "close"
    /\ log' = Append(log, SuccessLine(start_date))
    /\ pc' = "done"
    /\ UNCHANGED <<schedVars, cur, taskLocals, sessions, fetched, upload,
                   objects, failure, netReads, s3Writes, before, written,
                   installed, extLoads>>

\* logging.info("Download for date success: ...")
LogSuccess ==
    /\ pc = "log_success"
    /\ log' = Append(log, SuccessLine(start_date))
    /\ pc' = "done"
    /\ UNCHANGED <<schedVars, cur, taskLocals, sessions, fetched, upload,
                   objects, failure, netReads, s3Writes, before, written,
                   installed, extLoads>>

\* A connection the function left open (con.sql raised, so con.close() was
\* never reached) is reclaimed by the interpreter at some later time of its
\* choosing, once the attempt's frame is gone: when the traceback that kept
\* the frame is dropped, at a collection, or at exit. Leaked connections are
\* interchangeable (nothing refers to them), so the one reclaimed is taken to
\* be the one with the greatest handle.
Leaked == {s \in sessions : s # con}

Finalize ==
    /\ pc = "idle"
    /\ Leaked # {}
    /\ sessions' = sessions \ {CHOOSE s \in Leaked : \A t \in Leaked : t <= s}
    /\ UNCHANGED <<schedVars, cur, pc, taskLocals, fetched, upload, objects,
                   failure, log, netReads, s3Writes, before, written,
                   installed, extLoads>>

Next ==
    \/ CreateRun
    \/ StartRun
    \/ \E d \in Days : LaunchAttempt(d)
    \/ TaskFailed
    \/ TaskSucceeded
    \/ \E d \in Days : Rerun(d)
    \/ GetDatesAndLogStart
    \/ Connect
    \/ SqlInstallCached
    \/ SqlInstallDownload
    \/ SqlInstallFail
    \/ SqlFetchOk
    \/ SqlFetchFail
    \/ SqlOpenTarget
    \/ SqlOpenFail
    \/ SqlCopyPart
    \/ SqlCopyFail
    \/ SqlFinish
    \/ Close
    \/ LogSuccess
    \/ Finalize

Spec == Init /\ [][Next]_vars

\* The scheduler keeps scheduling, a started callable runs to its end, and the
\* interpreter eventually reclaims what is unreachable. Nobody is obliged to
\* clear a finished run.
SchedulerStep ==
    \/ CreateRun
    \/ StartRun
    \/ \E d \in Days : LaunchAttempt(d)
    \/ TaskFailed
    \/ TaskSucceeded

TaskStep ==
    \/ GetDatesAndLogStart
    \/ Connect
    \/ SqlInstallCached
    \/ SqlInstallDownload
    \/ SqlInstallFail
    \/ SqlFetchOk
    \/ SqlFetchFail
    \/ SqlOpenTarget
    \/ SqlOpenFail
    \/ SqlCopyPart
    \/ SqlCopyFail
    \/ SqlFinish
    \/ Close
    \/ LogSuccess

FairSpec ==
    /\ Spec
    /\ WF_vars(SchedulerStep)
    /\ WF_vars(TaskStep)
    /\ WF_vars(Finalize)

----------------------------------------------------------------------------
\* Properties.

Keys == DOMAIN objects
Target == S3Path(start_date)
AttemptEnded == pc \in {"raised", "done"}
OutboundReads == extLoads + netReads
HasSuccessLine == \E i \in 1..Len(log) : log[i].kind = "success"

\* C1: when the remote read fails (a non-2xx answer, or a malformed CSV met
\* while the rows are streamed), the attempt ends by raising and the bucket is
\* what it was when the attempt started: the target is neither created nor
\* modified.
C1_ReadFailureLeavesStore ==
    failure \in {"http", "csv"} =>
        /\ pc = "raised"
        /\ objects = before
        /\ ~HasSuccessLine

\* C1 witness: the read broke in mid-stream, after chunks had been sent, while
\* the target held the object of an earlier run.
C1_Witness ==
    /\ pc = "raised"
    /\ failure = "csv"
    /\ upload # <<>>
    /\ upload[1].sent = "some"
    /\ Target \in Keys

\* C2: the key is determined by start_date alone, so however often the
\* interval is run, the bucket holds exactly one object for it, at that key,
\* and it holds what the last completed COPY wrote (full overwrite).
C2_OneObjectPerInterval ==
    /\ \A d \in Days :
          d \in written =>
              {k \in Keys : k[4] = get_dates(d)[1]} = {S3Path(get_dates(d)[1])}
    /\ upload # <<>> => upload[1].key = S3Path(get_dates(cur)[1])
    /\ pc \in {"close", "log_success", "done"} =>
          /\ Target \in Keys
          /\ objects[Target] = [data |-> fetched, sent |-> "all"]

\* C2 witness: an interval whose run succeeded twice, the second COPY just
\* completed over the object of the first.
C2_Witness ==
    /\ pc = "done"
    /\ run[cur] = "running"
    /\ Target \in DOMAIN before
    /\ Cardinality(Keys) = Cardinality(DOMAIN before)

\* C3 (as claimed): an attempt that has ended, by returning or by raising,
\* has released the connection it opened.
C3_SessionReleasedAtEnd == AttemptEnded => con \notin sessions

\* C4: a failure inside con.sql is not caught: it ends the attempt as raised.
\* A raised attempt is retried at most Retries times, so a run has at most
\* Retries + 1 attempts; the run is failed only when the last of them raised;
\* and every run that started ends or failed.
C4_RetriesThenFinal ==
    /\ [](try_number <= Retries + 1)
    /\ [](failure # "none" => pc = "raised")
    /\ [][\A d \in Days :
            (run[d] = "running" /\ run'[d] = "failed") =>
                (pc = "raised" /\ cur = d /\ try_number = Retries + 1)]_vars
    /\ [][(pc = "raised" /\ pc' # "raised") =>
            (run'[cur] = IF try_number <= Retries THEN "running" ELSE "failed")]_vars
    /\ \A d \in Days : (run[d] = "running") ~> (run[d] \in {"success", "failed"})

\* C4 witness: one run was failed, its attempts used up, another succeeded.
C4_Witness ==
    /\ \E d \in Days : run[d] = "failed"
    /\ \E d \in Days : run[d] = "success"

C6_Serialized ==
    /\ [](Cardinality(Running) <= 1)
    /\ [](\A d \in Days : run[d] # "none" <=> d <= nextRun)
    /\ [](\A d \in 1..nextRun : get_dates(d) = <<d - 1, d>>)
    /\ [][\A d \in Days :
            (run[d] # "running" /\ run'[d] = "running") =>
                \A e \in 1..(d - 1) : run[e] \in {"success", "failed"}]_vars

\* C6 witness: the run of a later day is running, those before it finished.
C6_Witness ==
    \E d \in Days :
        /\ d > 1
        /\ run[d] = "running"
        /\ pc = "copy"

\* C7: when the storage write fails, no partial object is left: every object
\* of the bucket is complete, and the bucket is what it was when the attempt
\* started.
C7_NoPartialObject ==
    /\ \A k \in Keys : objects[k].sent = "all"
    /\ failure = "s3" =>
          /\ pc = "raised"
          /\ objects = before

\* C7 witness: the storage write broke after chunks had been sent, while the
\* target held the object of an earlier run.
C7_Witness ==
    /\ pc = "raised"
    /\ failure = "s3"
    /\ upload # <<>>
    /\ upload[1].sent = "some"
    /\ Target \in Keys

\* C8 (as claimed): an attempt issues one outbound read and one storage write
\* (never more, and exactly one of each when it succeeds).
C8_OneReadOneWrite ==
    /\ OutboundReads <= 1
    /\ s3Writes <= 1
    /\ pc = "done" => (OutboundReads = 1 /\ s3Writes = 1)

\* C8 (amended): an attempt issues at most one read of the remote CSV and at
\* most one storage write, exactly one of each when it succeeds, and besides
\* them at most one download of the httpfs extension, which then stays
\* installed; every object other than the one at the attempt's own key is
\* what it was when the attempt started; and the attempt works on the dates
\* of its own interval, starting from blank locals.
C8_FrameAndEffects ==
    /\ netReads <= 1
    /\ s3Writes <= 1
    /\ extLoads <= 1
    /\ pc = "done" => (netReads = 1 /\ s3Writes = 1)
    /\ (extLoads = 1 /\ failure # "install") => installed
    /\ cur # 0 =>
          \A k \in Keys \cup DOMAIN before :
              k # S3Path(get_dates(cur)[1]) =>
                  /\ k \in Keys
                  /\ k \in DOMAIN before
                  /\ objects[k] = before[k]
    /\ pc = "get_dates" =>
          /\ <<start_date, end_date, con>> = <<NoDate, NoDate, NoCon>>
          /\ fetched = <<>>
          /\ upload = <<>>
    /\ pc \notin {"idle", "get_dates"} => <<start_date, end_date>> = get_dates(cur)

\* C8 witness: an attempt succeeded while the bucket held other objects.
C8_Witness ==
    /\ pc = "done"
    /\ \E k \in Keys : k # Target
    /\ Target \notin DOMAIN before

\* C9: the start line, with both dates, is logged before the connection is
\* opened and before anything goes over the network; the success line, with
\* start_date, is logged only once the COPY has completed and the connection
\* is closed; an attempt that raised has logged the start line alone, one
\* that returned has logged the two lines.
C9_LogLines ==
    /\ (con # NoCon \/ OutboundReads > 0 \/ s3Writes > 0) =>
          (Len(log) >= 1 /\ log[1] = StartLine(get_dates(cur)[1], get_dates(cur)[2]))
    /\ HasSuccessLine =>
          /\ log = <<StartLine(get_dates(cur)[1], get_dates(cur)[2]),
                     SuccessLine(get_dates(cur)[1])>>
          /\ failure = "none"
          /\ cur \in written
          /\ upload = <<>>
          /\ con \notin sessions
    /\ pc = "raised" => log = <<StartLine(get_dates(cur)[1], get_dates(cur)[2])>>
    /\ pc = "done" => HasSuccessLine

\* C9 witness: an attempt that returned, with its two lines.
C9_Witness ==
    /\ pc = "done"
    /\ Len(log) = 2
    /\ sessions = {}

\* C10: runs of different start_dates write to different keys: the objects
\* of the bucket are, one for one, the keys of the intervals for which a COPY
\* completed, and each holds what was read from the URL of its own interval.
C10_OneKeyPerStartDate ==
    /\ Keys = {S3Path(get_dates(d)[1]) : d \in written}
    /\ Cardinality(Keys) = Cardinality(written)
    /\ \A d \in written :
          objects[S3Path(get_dates(d)[1])].data[1] = ApiUrl(get_dates(d)[1], get_dates(d)[2])

\* C10 witness: the objects of two intervals side by side.
C10_Witness ==
    /\ Cardinality(written) >= 2
    /\ Cardinality(Keys) >= 2
====
